---- MODULE Spec2Model ----
(***************************************************************************)
(* RedundantScopeChecker: a clang plugin that walks one translation unit,  *)
(* records for every file-scope variable the places it is used, folds the  *)
(* records of a compound statement into one node when the walk leaves it,  *)
(* and finally warns about variables that are unused or used in a single   *)
(* smaller scope.  Model of src/RedundantScopeChecker.cc.                  *)
(***************************************************************************)
EXTENDS Integers, Sequences, FiniteSets, TLC

\* ------------------------------------------------------------------ bounds
\* AST nodes (compound statements and reference expressions) of a walk.
MaxNodes == 5
\* AST nodes of a walk in the specification that varies the declarations'
\* attributes and the options.
MaxNodesClassify == 2
\* AST nodes of a walk in the specification that varies the argument list.
MaxNodesArgs == 2
\* Nesting depth of compound statements.
MaxDepth == 3
\* Entries of the `globals` vector (file-scope declarations visited).
MaxGlobals == 2
\* Length of the plugin's argument list.
MaxArgs == 2

\* ------------------------------------------------------------ the program
\* Canonical identities of variable declarations (VarDecl::getCanonicalDecl).
\* "a" is a variable all of whose declarations lie in the primary file; "h" is
\* a variable whose first (canonical) declaration lies in a header and which
\* may be declared again in the primary file (a static data member defined
\* out of line, a tentative definition); "p" is a function parameter.
Vars == {"a", "h"}
Decls == Vars \cup {"p"}

\* nullptr: the value of parentStmt at file scope.
nullptr == 0

\* The names of the fields of the `options` struct.
OptionNames == {"dumpAst", "noWarnUnused", "warnInit", "noShowUsages", "verbose"}

\* The option table: flag -> the field its `addr` points to.
validOptions ==
    [f \in {"-dump-ast", "-no-warn-unused", "-warn-init", "-no-show-usages",
            "-verbose"} |->
        CASE f = "-dump-ast" -> "dumpAst"
          [] f = "-no-warn-unused" -> "noWarnUnused"
          [] f = "-warn-init" -> "warnInit"
          [] f = "-no-show-usages" -> "noShowUsages"
          [] f = "-verbose" -> "verbose"]

\* Argument words tried: the table's flags, the help flag, an unknown word.
ArgWords == DOMAIN validOptions \cup {"-help", "-bogus"}

VARIABLES
    pc,          \* "start" | "traverse" | "done" | "exit"
    argv,        \* the plugin arguments (input)
    attrs,       \* per canonical declaration: what clang answers about it (input)
    astNodes,    \* number of statement/expression nodes of the unit (input)
    options,     \* the global `options` struct
    errs,        \* what parseArgs wrote to llvm::errs(): "help", "twice", "unknown"
    parentStmt,  \* ScopeCheckerVisitor::parentStmt
    depth,       \* ScopeCheckerVisitor::depth
    frames,      \* active TraverseCompoundStmt calls: their `stmt` and local `parent`
    usages,      \* ScopeCheckerVisitor::usages (its keys are the DOMAIN)
    globals,     \* ScopeCheckerVisitor::globals
    diags,       \* diagnostics reported through d.Report, in order
    nextNode,    \* identity of the next AST node the walk meets
    ctx,         \* history: per identity, the outermost contexts of its recorded uses
    trace,       \* history: the events of the current outermost compound statement
    blocks,      \* history: the nodes that are compound statements
    lastRef      \* history: what the reference visited in the last step named

vars == <<pc, argv, attrs, astNodes, options, errs, parentStmt, depth, frames,
          usages, globals, diags, nextNode, ctx, trace, blocks, lastRef>>

walk == <<parentStmt, depth, frames, usages, globals, nextNode>>
hist == <<ctx, trace, blocks>>
input == <<argv, attrs, astNodes>>

\* ------------------------------------------------------------- parseArgs
NoOptions == [o \in OptionNames |-> FALSE]

\* Mutant: a flag given again is accepted silently.
RECURSIVE parseLoop_lenient(_, _, _)
parseLoop_lenient(args, i, opts) ==
    IF i > Len(args) THEN [opts |-> opts, exit |-> "none"]
    ELSE IF args[i] \in DOMAIN validOptions
         THEN parseLoop_lenient(args, i + 1,
                                [opts EXCEPT ![validOptions[args[i]]] = TRUE])
         ELSE [opts |-> opts, exit |-> "unknown"]

RECURSIVE parseLoop(_, _, _)
parseLoop(args, i, opts) ==
    IF i > Len(args) THEN [opts |-> opts, exit |-> "none"]
    ELSE IF args[i] \in DOMAIN validOptions
         THEN IF ~opts[validOptions[args[i]]]
              THEN parseLoop(args, i + 1,
                             [opts EXCEPT ![validOptions[args[i]]] = TRUE])
              ELSE [opts |-> opts, exit |-> "twice"]
         ELSE [opts |-> opts, exit |-> "unknown"]

\* Mutant: the help flag is honoured whenever it comes first.
parseArgs_helpFirst(args, opts) ==
    IF Len(args) >= 1 /\ args[1] = "-help"
    THEN [opts |-> opts, exit |-> "help"]
    ELSE parseLoop(args, 1, opts)

parseArgs(args, opts) ==
    IF Len(args) = 1 /\ args[1] = "-help"
    THEN [opts |-> opts, exit |-> "help"]
    ELSE parseLoop(args, 1, opts)

\* ------------------------------------------------------------------ merge
UsageInformation(usedIn, parent, children) ==
    [usedIn |-> usedIn, parent |-> parent, children |-> children]

\* Mutant: the scan stops at the last entry tagged with the block, not the
\* first.
findParent_last(v, compound, i) ==
    LET tagged == {k \in i..Len(v) : v[k].parent = compound}
    IN  IF tagged = {} THEN Len(v) + 1
        ELSE CHOOSE k \in tagged : \A k2 \in tagged : k2 <= k

\* The loop of merge: the first position from i on whose entry has
\* parent = compound, Len(v) + 1 (v.end()) when there is none.
RECURSIVE findParent(_, _, _)
findParent(v, compound, i) ==
    IF i > Len(v) THEN i
    ELSE IF v[i].parent = compound THEN i
    ELSE findParent(v, compound, i + 1)

\* Mutant: the return for a vector without an entry tagged with the block is
\* lost, and an entry without children is made for the block.
merge_always(v, compound, parent) ==
    LET itr == findParent(v, compound, 1)
    IN  Append(SubSeq(v, 1, itr - 1),
               UsageInformation(compound, parent, SubSeq(v, itr, Len(v))))

\* Mutant: the entry found is overwritten and not kept among the children.
merge_dropFound(v, compound, parent) ==
    LET itr == findParent(v, compound, 1)
    IN  IF itr > Len(v) THEN v
        ELSE Append(SubSeq(v, 1, itr - 1),
                    UsageInformation(compound, parent, SubSeq(v, itr + 1, Len(v))))

\* Mutant: the merged entry is tagged with the block itself, not its parent.
merge_tagSelf(v, compound, parent) ==
    LET itr == findParent(v, compound, 1)
    IN  IF itr > Len(v) THEN v
        ELSE Append(SubSeq(v, 1, itr - 1),
                    UsageInformation(compound, compound, SubSeq(v, itr, Len(v))))

merge(v, compound, parent) ==
    LET itr == findParent(v, compound, 1)
    IN  IF itr > Len(v) THEN v
        ELSE Append(SubSeq(v, 1, itr - 1),
                    UsageInformation(compound, parent, SubSeq(v, itr, Len(v))))

\* Mutant: a vector with a single entry is skipped like an empty one.
mergeAll_skipSingle(u, stmt, parent) ==
    [d \in DOMAIN u |-> IF Len(u[d]) <= 1 THEN u[d] ELSE merge(u[d], stmt, parent)]

mergeAll(u, stmt, parent) ==
    [d \in DOMAIN u |-> IF u[d] = <<>> THEN u[d] ELSE merge(u[d], stmt, parent)]

\* ---------------------------------------------------------- printRedundant
Diag(kind, arg) == [kind |-> kind, arg |-> arg]

\* isRcsIgnore: an attribute spelled "used", or annotate("rcs_ignore"), is
\* among the declaration's attributes.
isRcsIgnore(vdecl) == attrs[vdecl].rcsIgnore

\* hasSideEffectInit: there is an initializer and it is not evaluatable.
hasSideEffectInit(vdecl) == attrs[vdecl].nonConstInit

hasExternalStorage(vdecl) == attrs[vdecl].externalStorage

\* Mutant: the marker of a block is printed after the notes of its children.
RECURSIVE printNotes_markerLast(_)
printNotes_markerLast(uses) ==
    IF uses = <<>> THEN <<>>
    ELSE LET use == Head(uses)
         IN  (IF use.children = <<>>
              THEN <<Diag("usageStmtNote", use.usedIn)>>
              ELSE printNotes_markerLast(use.children)
                   \o <<Diag("usageNote", use.usedIn)>>)
             \o printNotes_markerLast(Tail(uses))

RECURSIVE printNotes(_)
printNotes(uses) ==
    IF uses = <<>> THEN <<>>
    ELSE LET use == Head(uses)
         IN  (IF use.children = <<>>
              THEN <<Diag("usageStmtNote", use.usedIn)>>
              ELSE <<Diag("usageNote", use.usedIn)>> \o printNotes(use.children))
             \o printNotes(Tail(uses))

\* Mutant: a declaration with a side-effecting initializer is skipped whatever
\* warnInit says.
skipForInit_always(vdecl) == hasSideEffectInit(vdecl)

\* `hasSideEffectInit(vdecl) && !options.warnInit`: the declaration is skipped.
skipForInit(vdecl) == hasSideEffectInit(vdecl) /\ ~options.warnInit

\* Mutant: the wrong option is tested, warnInit for noWarnUnused.
reportUnused_initOnly(vdecl) ==
    IF ~options.warnInit THEN <<Diag("unusedWarning", vdecl)>> ELSE <<>>

\* Mutant: the test of noWarnUnused is inverted.
reportUnused_inverted(vdecl) ==
    IF options.noWarnUnused THEN <<Diag("unusedWarning", vdecl)>> ELSE <<>>

\* The report for a declaration without uses.
reportUnused(vdecl) ==
    IF ~options.noWarnUnused THEN <<Diag("unusedWarning", vdecl)>> ELSE <<>>

\* Mutant: the test for a single use in global scope is lost.
singleGlobalUse_never(uses) == FALSE

\* `uses[0].children.empty()`: a single use in global scope.
singleGlobalUse(uses) == uses[1].children = <<>>

\* The report for a declaration whose only entry is a merged one.
reportRedundantScope(vdecl, uses) ==
    IF uses[1].usedIn # nullptr
    THEN <<Diag("redundantScopeWarning", vdecl)>>
         \o (IF ~options.noShowUsages THEN printNotes(uses) ELSE <<>>)
    ELSE <<>>

\* The body of printRedundant's loop for one element of `globals`: the
\* diagnostics it reports.
reportGlobal(vdecl) ==
    IF isRcsIgnore(vdecl) THEN <<>>
    ELSE IF skipForInit(vdecl) THEN <<>>
    ELSE LET uses == usages[vdecl]
         IN  IF Len(uses) > 1 THEN <<>>
             ELSE IF hasExternalStorage(vdecl) THEN <<>>
             ELSE IF uses = <<>> THEN reportUnused(vdecl)
             ELSE IF singleGlobalUse(uses) THEN <<>>
             ELSE reportRedundantScope(vdecl, uses)

RECURSIVE printRedundantFrom(_)
printRedundantFrom(i) ==
    IF i > Len(globals) THEN <<>>
    ELSE reportGlobal(globals[i]) \o printRedundantFrom(i + 1)

printRedundant == printRedundantFrom(1)

\* ------------------------------------------------------------------ Init
Range(s) == {s[i] : i \in DOMAIN s}

BoundedSeq(S, n) == UNION {[1..k -> S] : k \in 0..n}

AttrRecords == [rcsIgnore : BOOLEAN, externalStorage : BOOLEAN, nonConstInit : BOOLEAN]
PlainAttr == [rcsIgnore |-> FALSE, externalStorage |-> FALSE, nonConstInit |-> FALSE]

\* Argument lists of flags that the classification reads, each at most once.
ClassifyFlags == <<"-no-warn-unused", "-warn-init", "-no-show-usages">>

ClassifyArgs ==
    {SelectSeq(ClassifyFlags, LAMBDA f : f \in S) : S \in SUBSET Range(ClassifyFlags)}

\* No reference was visited in the last step.
NoRef == [target |-> "", inHeader |-> FALSE]

InitWith(argLists, attrSets, nodes) ==
    /\ pc = "start"
    /\ argv \in argLists
    /\ attrs \in attrSets
    /\ astNodes = nodes
    /\ options = NoOptions
    /\ errs = <<>>
    /\ parentStmt = nullptr
    /\ depth = 0
    /\ frames = <<>>
    /\ usages = <<>>
    /\ globals = <<>>
    /\ diags = <<>>
    /\ nextNode = 1
    /\ ctx = [v \in Vars |-> <<>>]
    /\ trace = <<>>
    /\ blocks = {}
    /\ lastRef = NoRef

Init == InitWith({<<>>}, {[v \in Vars |-> PlainAttr]}, MaxNodes)

InitArgs == InitWith(BoundedSeq(ArgWords, MaxArgs), {[v \in Vars |-> PlainAttr]}, MaxNodesArgs)

InitClassify == InitWith(ClassifyArgs, [Vars -> AttrRecords], MaxNodesClassify)

\* --------------------------------------------------------------- actions
\* ScopeCheckerAction::ParseArgs: the whole of parseArgs.
ParseArgs ==
    /\ pc = "start"
    /\ LET r == parseArgs(argv, options)
       IN  /\ options' = r.opts
           /\ errs' = IF r.exit = "none" THEN errs ELSE Append(errs, r.exit)
           /\ pc' = IF r.exit = "none" THEN "traverse" ELSE "exit"
    /\ lastRef' = NoRef
    /\ UNCHANGED <<input, walk, diags, hist>>

isParmVarDecl(decl) == decl = "p"

\* usages[cd] = {} on the map: the key is created or its vector replaced.
registerUsages(u, cd) == [d \in DOMAIN u \cup {cd} |-> IF d = cd THEN <<>> ELSE u[d]]

\* Where a declaration of cd can lie: only "h" has declarations in a header.
\* Its header declaration comes first in the unit; visiting it changes nothing.
declInHeader(cd) == IF cd = "h" THEN BOOLEAN ELSE {FALSE}

\* Mutant: the test of the nesting counter is lost.
tracksDecl_anyDepth(cd, inHeader) == ~inHeader /\ ~isParmVarDecl(cd)

\* Whether VisitVarDecl registers the declaration: it lies in the primary
\* file, is no parameter, and no compound statement is open.
tracksDecl(cd, inHeader) == ~inHeader /\ ~isParmVarDecl(cd) /\ depth = 0

\* VisitVarDecl(decl): decl is a declaration of the identity cd, lying in a
\* header or in the primary file.
VisitVarDecl ==
    /\ pc = "traverse"
    /\ \E cd \in Decls :
        \E inHeader \in declInHeader(cd) :
            IF ~tracksDecl(cd, inHeader)
            THEN UNCHANGED <<globals, usages>>
            ELSE /\ Len(globals) < MaxGlobals
                 /\ globals' = Append(globals, cd)
                 /\ usages' = registerUsages(usages, cd)
    /\ lastRef' = NoRef
    /\ UNCHANGED <<pc, input, options, errs, parentStmt, depth, frames, diags,
                   nextNode, ctx, trace, blocks>>

Event(kind, node, decl) == [kind |-> kind, node |-> node, decl |-> decl]

\* The kind of declaration a reference names: a variable, a parameter, or
\* something else ("fn": a function, an enumerator).
declKind(target) ==
    IF target \in Vars THEN "Var" ELSE IF isParmVarDecl(target) THEN "ParmVar" ELSE "Function"

\* Mutant: the entry is tagged with file scope whatever statement is open.
newUsage_untagged(e) == UsageInformation(e, nullptr, <<>>)

\* The entry VisitDeclRefExpr pushes for the expression e.
newUsage(e) == UsageInformation(e, parentStmt, <<>>)

\* Whether VisitDeclRefExpr records the reference.
recordsUse(target, foundInHeader) ==
    ~foundInHeader /\ declKind(target) = "Var" /\ target \in DOMAIN usages

\* VisitDeclRefExpr(e): e names the declaration `target`; the declaration
\* found by lookup lies in a header or in the primary file.
VisitDeclRefExpr ==
    /\ pc = "traverse"
    /\ nextNode <= astNodes
    /\ \E target \in Decls \cup {"fn"} :
      \E foundInHeader \in declInHeader(target) :
        /\ LET e == nextNode
               top == IF frames = <<>> THEN Event("file", e, target)
                      ELSE Event("block", frames[1].stmt, target)
           IN  IF recordsUse(target, foundInHeader)
               THEN /\ usages' = [usages EXCEPT ![target] =
                                    Append(@, newUsage(e))]
                    /\ ctx' = IF top \in Range(ctx[target]) THEN ctx
                              ELSE [ctx EXCEPT ![target] = Append(@, top)]
                    /\ trace' = IF frames = <<>> THEN trace
                                ELSE Append(trace, Event("ref", e, target))
               ELSE UNCHANGED <<usages, ctx, trace>>
        /\ lastRef' = [target |-> target, inHeader |-> foundInHeader]
    /\ nextNode' = nextNode + 1
    /\ UNCHANGED <<pc, input, options, errs, parentStmt, depth, frames, globals,
                   diags, blocks>>

\* TraverseCompoundStmt(stmt), up to the call of the base class's traversal.
EnterCompoundStmt ==
    /\ pc = "traverse"
    /\ nextNode <= astNodes
    /\ depth < MaxDepth
    /\ LET stmt == nextNode
       IN  /\ depth' = depth + 1
           /\ frames' = Append(frames, [stmt |-> stmt, parent |-> parentStmt])
           /\ parentStmt' = stmt
           /\ trace' = IF frames = <<>> THEN <<Event("enter", stmt, "")>>
                       ELSE Append(trace, Event("enter", stmt, ""))
           /\ blocks' = blocks \cup {stmt}
    /\ nextNode' = nextNode + 1
    /\ lastRef' = NoRef
    /\ UNCHANGED <<pc, input, options, errs, usages, globals, diags, ctx>>

\* Mutant: the exit forgets the saved value and falls back to file scope.
restoredParent_null(f) == nullptr

\* `parentStmt = parent`: the value the exit gives back to parentStmt.
restoredParent(f) == f.parent

\* TraverseCompoundStmt(stmt), from the return of the base class's traversal.
ExitCompoundStmt ==
    /\ pc = "traverse"
    /\ frames # <<>>
    /\ LET f == frames[Len(frames)]
       IN  /\ usages' = mergeAll(usages, f.stmt, f.parent)
           /\ parentStmt' = restoredParent(f)
           /\ trace' = Append(trace, Event("exit", f.stmt, ""))
    /\ depth' = depth - 1
    /\ frames' = SubSeq(frames, 1, Len(frames) - 1)
    /\ lastRef' = NoRef
    /\ UNCHANGED <<pc, input, options, errs, globals, diags, nextNode, ctx, blocks>>

\* HandleTranslationUnit, once TraverseDecl has returned: printRedundant.
PrintRedundant ==
    /\ pc = "traverse"
    /\ frames = <<>>
    /\ diags' = diags \o printRedundant
    /\ pc' = "done"
    /\ lastRef' = NoRef
    /\ UNCHANGED <<input, options, errs, walk, hist>>

Next ==
    \/ ParseArgs
    \/ VisitVarDecl
    \/ VisitDeclRefExpr
    \/ EnterCompoundStmt
    \/ ExitCompoundStmt
    \/ PrintRedundant

Spec == Init /\ [][Next]_vars

SpecClassify == InitClassify /\ [][Next]_vars

SpecArgs == InitArgs /\ [][Next]_vars

\* ================================================================= claims
Registered == DOMAIN usages

Occurrences(seq, x) == Cardinality({i \in DOMAIN seq : seq[i] = x})

\* A primary finding (either warning) has been reported for the declaration.
HasDiag(kind, d) == \E i \in DOMAIN diags : diags[i] = Diag(kind, d)

HasFinding(d) == HasDiag("unusedWarning", d) \/ HasDiag("redundantScopeWarning", d)

\* A step of VisitVarDecl: the walk stays where it is, no node is consumed.
DeclStep == pc = "traverse" /\ pc' = "traverse" /\ nextNode' = nextNode /\ frames' = frames

\* C1: observing again, at file scope, a declaration whose canonical identity
\* is already registered leaves exactly one registry entry for the identity
\* and leaves its usage-record list as it was.
C1_RegisterIdempotent ==
    [][DeclStep =>
        \A cd \in Registered :
            /\ usages'[cd] = usages[cd]
            /\ Occurrences(globals', cd) = 1]_vars

\* The outermost compound statements under which uses of d were recorded.
TopBlocksOf(d) == {ctx[d][i].node : i \in {j \in DOMAIN ctx[d] : ctx[d][j].kind = "block"}}

\* C2: a registered declaration referenced inside two or more distinct
\* outermost compound statements gets no finding at classification.
C2_MultiplyUsedNoFinding ==
    pc = "done" =>
        \A d \in Registered : Cardinality(TopBlocksOf(d)) >= 2 => ~HasFinding(d)

\* A declaration the classifier neither skips as suppressed nor as extern.
NotExcluded(d) == ~attrs[d].rcsIgnore /\ ~attrs[d].externalStorage

\* C3 as stated: for a registered declaration that is neither suppressed nor
\* extern, with noWarnUnused off, the Unused finding is reported exactly when
\* the usage-record list is empty, whatever the initializer and warnInit.
C3_UnusedIffEmpty ==
    pc = "done" =>
        \A d \in Registered :
            NotExcluded(d) /\ ~options.noWarnUnused =>
                (HasDiag("unusedWarning", d) <=> usages[d] = <<>>)

\* C3 amended: the Unused finding is reported exactly when the list is empty
\* and the declaration has no side-effecting initializer or warnInit is set.
C3_UnusedIffEmptyAndInitAllowed ==
    pc = "done" =>
        \A d \in Registered :
            NotExcluded(d) /\ ~options.noWarnUnused =>
                (HasDiag("unusedWarning", d) <=>
                    /\ usages[d] = <<>>
                    /\ (~attrs[d].nonConstInit \/ options.warnInit))

C3_Witness ==
    /\ pc = "done"
    /\ \E d \in Registered :
        /\ NotExcluded(d) /\ ~options.noWarnUnused
        /\ attrs[d].nonConstInit /\ options.warnInit
        /\ usages[d] = <<>>
        /\ HasDiag("unusedWarning", d)
    /\ \E d \in Registered :
        /\ NotExcluded(d) /\ usages[d] # <<>> /\ ~HasDiag("unusedWarning", d)

\* Eligible for the confined-scope finding.
Eligible(d) == NotExcluded(d) /\ (~attrs[d].nonConstInit \/ options.warnInit)

\* C4: for an eligible declaration whose final list has exactly one entry, the
\* ConfinedToScope finding is reported exactly when that entry has a child;
\* and when the list's one entry stems from a single reference made directly
\* in an outermost compound statement T, the entry is T with one leaf child.
C4_ConfinedIffHasChild ==
    pc = "done" =>
        \A d \in Registered :
            Eligible(d) /\ Len(usages[d]) = 1 =>
                /\ HasDiag("redundantScopeWarning", d) <=> usages[d][1].children # <<>>
                /\ \A t, e \in 1..astNodes :
                    /\ ctx[d] = <<Event("block", t, d)>>
                    /\ trace = <<Event("enter", t, ""), Event("ref", e, d),
                                 Event("exit", t, "")>>
                    => /\ usages[d][1].usedIn = t
                       /\ Len(usages[d][1].children) = 1
                       /\ usages[d][1].children[1].usedIn = e
                       /\ usages[d][1].children[1].children = <<>>
                       /\ HasDiag("redundantScopeWarning", d)

C4_Witness ==
    /\ pc = "done"
    /\ \E d \in Registered :
        /\ Eligible(d) /\ Len(usages[d]) = 1
        /\ Len(usages[d][1].children) = 1
        /\ usages[d][1].children[1].children = <<>>
        /\ ctx[d] = <<Event("block", usages[d][1].usedIn, d)>>
        /\ HasDiag("redundantScopeWarning", d)

\* The declarations the exclusion rules name: suppressed, extern, a function
\* parameter, or first declared outside the primary file.
Excluded(d) ==
    \/ d = "p"
    \/ d = "h"
    \/ d \in Vars /\ (attrs[d].rcsIgnore \/ attrs[d].externalStorage)

\* C9: an excluded declaration never receives a finding.
C9_ExcludedNoFinding ==
    \A d \in Decls : Excluded(d) => ~HasFinding(d)

\* The diagnostics of a usage tree, block marker before children, in order.
RECURSIVE TreeNotes(_)
FlattenNotes(es) ==
    LET F[i \in 0..Len(es)] == IF i = 0 THEN <<>> ELSE F[i - 1] \o TreeNotes(es[i])
    IN  F[Len(es)]
TreeNotes(e) ==
    IF e.children = <<>> THEN <<Diag("usageStmtNote", e.usedIn)>>
    ELSE <<Diag("usageNote", e.usedIn)>> \o FlattenNotes(e.children)

\* seg occurs in seq as a run of consecutive elements.
IsSegment(seg, seq) ==
    \E k \in 0..(Len(seq) - Len(seg)) : \A i \in 1..Len(seg) : seq[k + i] = seg[i]

\* The ConfinedToScope finding of d as a declaration without a side-effecting
\* initializer gets it: the warning, then the notes of the tree if shown.
ConfinedFinding(d) ==
    <<Diag("redundantScopeWarning", d)>>
    \o (IF options.noShowUsages THEN <<>> ELSE TreeNotes(usages[d][1]))

\* C10: a registered, non-suppressed, non-extern declaration with a
\* side-effecting initializer and a single merged entry gets no
\* ConfinedToScope finding with warnInit off, and with warnInit on the finding
\* a declaration without such an initializer gets.
C10_WarnInitGatesConfined ==
    pc = "done" =>
        \A d \in Registered :
            /\ NotExcluded(d) /\ attrs[d].nonConstInit
            /\ Len(usages[d]) = 1 /\ usages[d][1].children # <<>>
            => IF options.warnInit
               THEN IsSegment(ConfinedFinding(d), diags)
               ELSE ~HasFinding(d)

C10_Witness ==
    /\ pc = "done"
    /\ options.warnInit
    /\ \E d \in Registered :
        /\ NotExcluded(d) /\ attrs[d].nonConstInit
        /\ Len(usages[d]) = 1 /\ usages[d][1].children # <<>>
        /\ HasDiag("redundantScopeWarning", d)
        /\ HasDiag("usageStmtNote", usages[d][1].children[1].usedIn)

\* The step that leaves the innermost compound statement.
ExitStep == pc = "traverse" /\ frames # <<>> /\ Len(frames') = Len(frames) - 1

\* The innermost open compound statement and the one around it (nullptr at
\* file scope), read off the stack of active traversals.
Innermost == frames[Len(frames)].stmt
Enclosing == IF Len(frames) = 1 THEN nullptr ELSE frames[Len(frames) - 1].stmt

\* Merge(old, B, P) as the contract states it.
TaggedAt(old, B) == {i \in DOMAIN old : old[i].parent = B}
MergeContract(old, B, P) ==
    IF TaggedAt(old, B) = {} THEN old
    ELSE LET i == CHOOSE k \in TaggedAt(old, B) : \A j \in TaggedAt(old, B) : k <= j
         IN  [k \in 1..i |->
                IF k < i THEN old[k]
                ELSE [usedIn |-> B, parent |-> P,
                      children |-> [m \in 1..(Len(old) - i + 1) |-> old[i + m - 1]]]]

\* C5: on exit of a block B with parent P the new usage-record list of every
\* registered declaration is Merge(old list, B, P).
C5_ExitAppliesMerge ==
    [][ExitStep =>
        /\ DOMAIN usages' = DOMAIN usages
        /\ \A d \in Registered :
            usages'[d] = MergeContract(usages[d], Innermost, Enclosing)]_vars

C5_Witness ==
    /\ Cardinality(Registered) = 2
    /\ \E d \in Registered :
        /\ Len(usages[d]) = 2
        /\ usages[d][1].children = <<>>
        /\ Len(usages[d][2].children) >= 2
    /\ \E d \in Registered : Len(usages[d]) = 1 /\ usages[d][1].children # <<>>

\* C6: while B is the innermost open block, every entry at or after the first
\* entry tagged B is tagged B.
C6_TailInvariant ==
    pc = "traverse" /\ frames # <<>> =>
        \A d \in Registered :
            \A i, j \in DOMAIN usages[d] :
                i <= j /\ usages[d][i].parent = Innermost
                => usages[d][j].parent = Innermost

C6_Witness ==
    /\ pc = "traverse" /\ frames # <<>>
    /\ \E d \in Registered :
        /\ Len(usages[d]) = 3
        /\ usages[d][1].parent # Innermost
        /\ usages[d][2].parent = Innermost /\ usages[d][2].children = <<>>
        /\ usages[d][3].parent = Innermost /\ usages[d][3].children # <<>>

\* C7: after the walk the list of a registered declaration has one merged
\* entry per outermost block that holds a reference to it and one leaf per
\* reference at file scope, in order of first occurrence.
C7_OneEntryPerTopContext ==
    pc = "done" =>
        \A d \in Registered :
            /\ Len(usages[d]) = Len(ctx[d])
            /\ \A i \in DOMAIN usages[d] :
                /\ i \in DOMAIN ctx[d]
                /\ usages[d][i].usedIn = ctx[d][i].node
                /\ usages[d][i].children # <<>> <=> ctx[d][i].kind = "block"

\* The usage entries of d built in one pass over the events tr[i..] of a
\* block `inside` (whose own enclosing block does not matter here): the
\* references to d and the blocks that hold one, each block with its entries.
RECURSIVE OnePass(_, _, _, _)
OnePass(tr, i, d, inside) ==
    IF i > Len(tr) THEN [items |-> <<>>, next |-> i]
    ELSE IF tr[i].kind = "exit" THEN [items |-> <<>>, next |-> i + 1]
    ELSE IF tr[i].kind = "ref"
         THEN LET rest == OnePass(tr, i + 1, d, inside)
              IN  [items |-> (IF tr[i].decl = d
                              THEN <<[usedIn |-> tr[i].node, parent |-> inside,
                                      children |-> <<>>]>>
                              ELSE <<>>) \o rest.items,
                   next |-> rest.next]
    ELSE LET body == OnePass(tr, i + 1, d, tr[i].node)
             rest == OnePass(tr, body.next, d, inside)
         IN  [items |-> (IF body.items # <<>>
                         THEN <<[usedIn |-> tr[i].node, parent |-> inside,
                                 children |-> body.items]>>
                         ELSE <<>>) \o rest.items,
              next |-> rest.next]

\* C8: when the walk leaves an outermost block T, the entry the level-by-level
\* folding has produced for T is the tree built in one pass from T's events;
\* a declaration without a reference in T gets no entry for T.
C8_FoldIsOnePass ==
    [][ExitStep /\ Len(frames) = 1 =>
        \A d \in Registered :
            LET t == OnePass(trace', 1, d, nullptr).items
            IN  IF t = <<>> THEN usages'[d] = usages[d]
                ELSE /\ usages'[d] # <<>>
                     /\ usages'[d][Len(usages'[d])] = t[1]
                     /\ \A i \in 1..(Len(usages'[d]) - 1) :
                            /\ i \in DOMAIN usages[d]
                            /\ usages'[d][i] = usages[d][i]
                            /\ usages[d][i].usedIn \notin {trace'[k].node : k \in DOMAIN trace'}]_vars

C8_Witness ==
    /\ pc = "traverse" /\ frames = <<>>
    /\ trace # <<>> /\ trace[Len(trace)].kind = "exit"
    /\ \E d \in Registered :
        /\ Len(usages[d]) = 1
        /\ Len(usages[d][1].children) = 3
        /\ usages[d][1].children[1].children = <<>>
        /\ usages[d][1].children[2].children # <<>>
        /\ usages[d][1].children[3].children = <<>>

\* The compound statement that is current: the innermost one whose traversal
\* is active, nullptr when none is.
CurrentBlock == IF frames = <<>> THEN nullptr ELSE Innermost

\* C11: the current block is none while no compound statement is being
\* traversed and the innermost open one otherwise, the nesting counter is the
\* number of open statements, and the parent each open statement will hand to
\* the merge on its exit is the statement that was current when it was
\* entered; the exit gives the current block back as that parent.
C11_ScopeStackLifo ==
    /\ parentStmt = CurrentBlock
    /\ depth = Len(frames)
    /\ \A i \in DOMAIN frames :
        frames[i].parent = (IF i = 1 THEN nullptr ELSE frames[i - 1].stmt)
    /\ \A i, j \in DOMAIN frames : i < j => frames[i].stmt < frames[j].stmt
    /\ pc = "done" => parentStmt = nullptr

\* An inner compound statement has been left and the one around it, entered
\* before it, is current again.
C11_Witness ==
    /\ Len(frames) = 2
    /\ parentStmt = frames[2].stmt /\ frames[2].parent = frames[1].stmt
    /\ \E b \in blocks : b > frames[2].stmt

\* The step of VisitDeclRefExpr: a node is consumed, no statement is entered.
RefStep == pc = "traverse" /\ lastRef' # NoRef

\* The reference of a RefStep is one the plug-in records: it names a
\* registered variable and is not found in a header.
RecordedRef ==
    /\ lastRef'.target \in Registered
    /\ ~lastRef'.inHeader

\* C12: recording a reference to a registered declaration d while c is the
\* current block appends exactly one leaf (no children, site the reference,
\* tag c) at the end of d's list and changes nothing else: not the earlier
\* entries, not another list, not the registry, not the scope stack.
C12_RecordAppendsOneLeaf ==
    [][RefStep /\ RecordedRef =>
        /\ usages' = [usages EXCEPT ![lastRef'.target] =
                Append(@, [usedIn |-> nextNode, parent |-> CurrentBlock,
                           children |-> <<>>])]
        /\ globals' = globals
        /\ <<parentStmt, depth, frames>>' = <<parentStmt, depth, frames>>]_vars

\* Two references to one declaration were recorded in an open compound
\* statement while another declaration kept its own list.
C12_Witness ==
    /\ frames # <<>>
    /\ lastRef.target \in Registered /\ ~lastRef.inHeader
    /\ \E d \in Registered :
        /\ d # lastRef.target /\ usages[d] # <<>>
    /\ LET l == usages[lastRef.target]
       IN  /\ Len(l) >= 2
           /\ l[Len(l)] = [usedIn |-> nextNode - 1, parent |-> Innermost,
                           children |-> <<>>]

\* The primary findings (either warning) reported for the declaration.
PrimaryFindings(d) ==
    {i \in DOMAIN diags :
        diags[i] \in {Diag("unusedWarning", d), Diag("redundantScopeWarning", d)}}

\* C13: a run reports at most one primary finding for a canonical
\* declaration, however many times the declaration is re-declared.
C13_OneFindingPerDecl ==
    \A d \in Decls : Cardinality(PrimaryFindings(d)) <= 1

\* The leaves and the merged nodes of a usage tree.
RECURSIVE Leaves(_), MergedNodes(_)
Leaves(e) ==
    IF e.children = <<>> THEN 1
    ELSE LET S[i \in 0..Len(e.children)] ==
                 IF i = 0 THEN 0 ELSE S[i - 1] + Leaves(e.children[i])
         IN  S[Len(e.children)]
MergedNodes(e) ==
    IF e.children = <<>> THEN 0
    ELSE LET S[i \in 0..Len(e.children)] ==
                 IF i = 0 THEN 0 ELSE S[i - 1] + MergedNodes(e.children[i])
         IN  1 + S[Len(e.children)]

\* The notes that follow the diagnostic at position k, up to the next
\* primary warning or the end of the output.
IsNote(dg) == dg.kind \in {"usageNote", "usageStmtNote"}
NotesAfter(k) ==
    LET stop == {j \in (k + 1)..Len(diags) : ~IsNote(diags[j])}
        last == IF stop = {} THEN Len(diags)
                ELSE (CHOOSE j \in stop : \A j2 \in stop : j <= j2) - 1
    IN  SubSeq(diags, k + 1, last)

\* C14: with noShowUsages off, a ConfinedToScope warning for d is followed,
\* up to the next warning, by exactly the pre-order walk of d's usage tree:
\* the block marker of a merged node before the notes of its children, a
\* used-here note for a leaf, children in list order; there are as many
\* used-here notes as leaves and as many block markers as merged nodes.
C14_NotesArePreorder ==
    pc = "done" /\ ~options.noShowUsages =>
        \A k \in DOMAIN diags : \A d \in Registered :
            diags[k] = Diag("redundantScopeWarning", d) =>
                LET notes == NotesAfter(k)
                    tree == usages[d][1]
                IN  /\ notes = TreeNotes(tree)
                    /\ Len(SelectSeq(notes, LAMBDA n : n.kind = "usageStmtNote"))
                            = Leaves(tree)
                    /\ Len(SelectSeq(notes, LAMBDA n : n.kind = "usageNote"))
                            = MergedNodes(tree)
                    /\ notes[1] = Diag("usageNote", tree.usedIn)

\* A warning was reported for a tree with a nested block between two leaves.
C14_Witness ==
    /\ pc = "done" /\ ~options.noShowUsages
    /\ \E d \in Registered : \E k \in DOMAIN diags :
        /\ diags[k] = Diag("redundantScopeWarning", d)
        /\ MergedNodes(usages[d][1]) = 2 /\ Leaves(usages[d][1]) = 3
        /\ usages[d][1].children[2].children # <<>>
        /\ Len(NotesAfter(k)) = 5
        /\ NotesAfter(k)[3] = Diag("usageNote", usages[d][1].children[2].usedIn)

\* The positions of the option list that hold a word not in the table or a
\* flag already given to their left, and the first of them.
BadArgs ==
    {i \in DOMAIN argv :
        \/ argv[i] \notin DOMAIN validOptions
        \/ \E j \in 1..(i - 1) : argv[j] = argv[i]}
FirstBad == CHOOSE i \in BadArgs : \A j \in BadArgs : i <= j

\* The options a list of flags of the table sets.
OptionsOf(flags) ==
    [o \in OptionNames |-> \E i \in DOMAIN flags : validOptions[flags[i]] = o]

\* No traversal and no classification has happened.
NoAnalysis ==
    /\ diags = <<>> /\ usages = <<>> /\ globals = <<>>
    /\ nextNode = 1 /\ frames = <<>>

\* C15: once the option list is processed, a list with a duplicate or unknown
\* flag has ended the run with a non-zero status at the first such flag,
\* before any traversal or classification, so no finding is ever emitted in
\* such a run; a list of distinct recognized flags has set exactly those
\* options and the analysis proceeds.
C15_ArgsFatalOrSet ==
    pc # "start" =>
        IF BadArgs # {}
        THEN /\ pc = "exit" /\ Len(errs) = 1
             /\ NoAnalysis
             /\ argv # <<"-help">> =>
                /\ options = OptionsOf(SubSeq(argv, 1, FirstBad - 1))
                /\ errs[1] = (IF argv[FirstBad] \in DOMAIN validOptions
                              THEN "twice" ELSE "unknown")
        ELSE /\ pc \in {"traverse", "done"} /\ errs = <<>>
             /\ options = OptionsOf(argv)

\* A flag after a valid one was given twice and ended the run.
C15_Witness ==
    /\ pc = "exit" /\ errs = <<"twice">>
    /\ Len(argv) = 2 /\ argv[1] = argv[2]
    /\ options[validOptions[argv[1]]]

\* C16: whenever the help flag is among the arguments, alone or with other
\* flags, the run prints the option table and exits without analysis.
C16_HelpAlwaysPrintsTable ==
    pc # "start" /\ "-help" \in Range(argv) =>
        pc = "exit" /\ errs = <<"help">> /\ NoAnalysis

\* C16 as the code has it: with the help flag among the arguments the run
\* exits with a non-zero status without analysis; the option table is printed
\* exactly when the help flag is the only argument, and otherwise the run
\* ends with the fatal error of the first duplicate or unknown argument, the
\* help flag counting as unknown.
C16_HelpOnlyWhenAlone ==
    pc # "start" /\ "-help" \in Range(argv) =>
        /\ pc = "exit" /\ NoAnalysis
        /\ errs = <<"help">> <=> argv = <<"-help">>
        /\ argv # <<"-help">> =>
            errs = <<IF argv[FirstBad] \in DOMAIN validOptions
                     THEN "twice" ELSE "unknown">>

\* The help flag alone printed the table and ended the run.
C16_Witness ==
    pc = "exit" /\ argv = <<"-help">> /\ errs = <<"help">> /\ NoAnalysis

\* The finding of a registered declaration under the options opts, as the
\* classification is specified: none for a suppressed, extern or
\* initializer-skipped declaration, Unused for an empty list, ConfinedToScope
\* with its notes for a single merged entry.
FindingUnder(d, opts) ==
    IF \/ attrs[d].rcsIgnore \/ attrs[d].externalStorage
       \/ attrs[d].nonConstInit /\ ~opts.warnInit
    THEN <<>>
    ELSE IF usages[d] = <<>>
    THEN IF opts.noWarnUnused THEN <<>> ELSE <<Diag("unusedWarning", d)>>
    ELSE IF Len(usages[d]) = 1 /\ usages[d][1].children # <<>>
    THEN <<Diag("redundantScopeWarning", d)>>
         \o (IF opts.noShowUsages THEN <<>> ELSE TreeNotes(usages[d][1]))
    ELSE <<>>

\* The output of the classification under opts, in registry order.
FindingsUnder(opts) ==
    LET F[i \in 0..Len(globals)] ==
            IF i = 0 THEN <<>> ELSE F[i - 1] \o FindingUnder(globals[i], opts)
    IN  F[Len(globals)]

C18_OnlyFileScopeTracked ==
    [][/\ (pc = "traverse" /\ frames # <<>> =>
                globals' = globals /\ DOMAIN usages' = DOMAIN usages)
       /\ (RefStep /\ lastRef'.target \notin Registered =>
                usages' = usages /\ globals' = globals)]_vars

\* Inside a block a variable that is not registered, such as a local that
\* shadows a global, has just been referenced, and the registered global
\* still has no use.
C18_Witness ==
    /\ frames # <<>>
    /\ lastRef.target \in Vars \ Registered
    /\ Registered # {}
    /\ \A g \in Registered : usages[g] = <<>>

\* The entries of a usage tree, at every depth.
RECURSIVE NodesOf(_)
NodesOf(e) ==
    {e} \cup UNION {NodesOf(e.children[i]) : i \in DOMAIN e.children}

AllEntries ==
    UNION {UNION {NodesOf(usages[d][i]) : i \in DOMAIN usages[d]} : d \in Registered}

\* C19: at every depth of every usage tree, an entry has children exactly
\* when its site is a compound statement (it was made by a merge), and has
\* none exactly when its site is a reference expression; no merged entry is
\* without children.
C19_ChildrenIffBlockSite ==
    \A n \in AllEntries :
        /\ n.children # <<>> <=> n.usedIn \in blocks
        /\ n.children = <<>> <=> n.usedIn \in (1..(nextNode - 1)) \ blocks

\* A merged entry holds a leaf, a merged entry and another leaf.
C19_Witness ==
    \E d \in Registered : \E i \in DOMAIN usages[d] :
        LET n == usages[d][i]
        IN  /\ n.usedIn \in blocks /\ Len(n.children) = 3
            /\ n.children[1].children = <<>>
            /\ n.children[2].usedIn \in blocks
            /\ n.children[2].children # <<>>
            /\ n.children[3].children = <<>>

\* How deep a tag lies on the stack of open compound statements: 0 for
\* nullptr, k for the k-th open statement, -1 for a statement not open.
TagDepth(tag) ==
    IF tag = nullptr THEN 0
    ELSE IF \E k \in DOMAIN frames : frames[k].stmt = tag
         THEN CHOOSE k \in DOMAIN frames : frames[k].stmt = tag
         ELSE -1

\* C20: between events the tag of every top-level entry of every list is
\* nullptr or a compound statement that is open, and along a list the tags
\* never get shallower; so no top-level entry is tagged with a statement
\* that has been left, and after the traversal every one is tagged nullptr.
C20_TopLevelTagsFollowStack ==
    \A d \in Registered :
        /\ \A i \in DOMAIN usages[d] : TagDepth(usages[d][i].parent) >= 0
        /\ \A i, j \in DOMAIN usages[d] :
            i < j => TagDepth(usages[d][i].parent) <= TagDepth(usages[d][j].parent)
        /\ \A i \in DOMAIN usages[d] :
            usages[d][i].parent \notin blocks \ {frames[k].stmt : k \in DOMAIN frames}
        /\ pc = "done" => \A i \in DOMAIN usages[d] : usages[d][i].parent = nullptr

\* A list holds a file-scope entry, an entry merged out of a statement that
\* has been left, tagged with the open statement around it, and a leaf of
\* the open statement.
C20_Witness ==
    /\ Len(frames) = 1
    /\ \E d \in Registered :
        /\ Len(usages[d]) = 3
        /\ usages[d][1].parent = nullptr
        /\ usages[d][2].parent = Innermost /\ usages[d][2].children # <<>>
        /\ usages[d][2].usedIn \in blocks
        /\ usages[d][3].parent = Innermost /\ usages[d][3].children = <<>>

====
